---- MODULE Spec2Model ----
(***************************************************************************)
(* rp2040-hal UART driver (src/rp2040-hal/src/uart.rs): the typestate      *)
(* lifecycle of UARTPeripheral, the baud divisor calculator, the line      *)
(* format encoder and the FIFO-bounded transfer engine, together with the  *)
(* PL011 register block and its two hardware FIFOs.                        *)
(***************************************************************************)
EXTENDS Integers, Sequences, FiniteSets, TLC

VARIABLES
    handles,    \* device handles (rp2040_pac::UART0 / UART1) owned by the caller
    insts,      \* the live UARTPeripheral values
    regs,       \* per device: uartcr, uartlcr_h, uartdmacr, uartibrd, uartfbrd
    baudcfg,    \* per device: the locals of the last configure_baudrate call
    en,         \* the activation of enable, when it is followed write by write
    txfifo,     \* per device: transmit FIFO, oldest byte first
    rxfifo,     \* per device: receive FIFO, oldest byte first
    rxnext,     \* per device: the byte the peer sends next
    frame,      \* the activation of write / read in progress
    wrap,       \* the activation of write_full_blocking / read_full_blocking
    txlog,      \* bytes written to the data register since the caller's call began
    rxlog       \* bytes read from the data register since the caller's call began

vars == <<handles, insts, regs, baudcfg, en, txfifo, rxfifo, rxnext, frame, wrap, txlog, rxlog>>

hw == <<txfifo, rxfifo, rxnext>>
xfer == <<frame, wrap, txlog, rxlog>>

(***************************************************************************)
(* Bounds of the model.                                                    *)
(***************************************************************************)
\* depth of each hardware FIFO
FifoDepth == 2
\* longest slice handed to a transfer operation
MaxLen == 3

(***************************************************************************)
(* Devices, configurations, clock frequencies.                             *)
(***************************************************************************)
Devices == {"UART0", "UART1"}

DataBitsT == {"Five", "Six", "Seven", "Eight"}
StopBitsT == {"One", "Two"}
ParityT == {"None", "Odd", "Even"}

UARTConfig(baudrate, data_bits, stop_bits, parity) ==
    [baudrate |-> baudrate, data_bits |-> data_bits,
     stop_bits |-> stop_bits, parity |-> parity]

\* common_configs::_115200_8_N_1
Cfg_115200_8_N_1 == UARTConfig(115200, "Eight", "One", "None")

\* the configurations the caller passes to enable
Configs ==
    { Cfg_115200_8_N_1,
      UARTConfig(114900, "Seven", "Two", "Even"),
      UARTConfig(1000000, "Five", "One", "Odd"),
      UARTConfig(100, "Six", "Two", "None") }

\* the peripheral clock frequencies the caller passes to enable (Hz)
Frequencies == {125000000, 12000000}

(***************************************************************************)
(* u32 arithmetic of configure_baudrate.                                   *)
(***************************************************************************)
\* k * x modulo 2^32, for k a power of two (x % 2^32/k, then times k)
WrappingMul(k, x) == k * (x % (((2^30) \div k) * 4))

\* (k * x modulo 2^32) / y for k a power of two, the product taken apart as
\* k * (q * y + r) so that no value reaches 2^31
WrappingMulDiv(k, x, y) ==
    LET m == x % (((2^30) \div k) * 4)
    IN k * (m \div y) + (k * (m % y)) \div y

ShiftRight7(x) == x \div 128
LowSeven(x) == x % 128

\* let baudrate_div = 8 * frequency / wanted_baudrate
BaudrateDiv(wanted, frequency) == WrappingMulDiv(8, frequency, wanted)

\* the scrutinee of the match: (baudrate_div >> 7, ((baudrate_div & 0x7F) + 1) / 2)
IbrdCandidate(div) == ShiftRight7(div)
FbrdCandidate(div) == (LowSeven(div) + 1) \div 2

\* the match arms: (0, _) => (1, 0); (ibrd, _) if ibrd >= 65535 => (65535, 0);
\* (ibrd, fbrd) => (ibrd, fbrd)
BaudIbrd(div) ==
    IF IbrdCandidate(div) = 0 THEN 1
    ELSE IF IbrdCandidate(div) >= 65535 THEN 65535
    ELSE IbrdCandidate(div)

BaudFbrd(div) ==
    IF IbrdCandidate(div) = 0 THEN 0
    ELSE IF IbrdCandidate(div) >= 65535 THEN 0
    ELSE FbrdCandidate(div)

\* the effective baud rate with the fractional part of the divisor left out
EffectiveBaudNoFrac(frequency, ibrd, fbrd) ==
    WrappingMulDiv(4, frequency, WrappingMul(64, ibrd))

\* Baud((4 * frequency) / (64 * baud_ibrd + baud_fbrd))
EffectiveBaud(frequency, ibrd, fbrd) ==
    WrappingMulDiv(4, frequency, WrappingMul(64, ibrd) + fbrd)

\* w.baud_divint().bits(baud_ibrd as u16): the 16-bit field keeps the low 16 bits
DivintBits(ibrd) == ibrd % 65536
\* w.baud_divfrac().bits(baud_fbrd as u8): the 6-bit field keeps the low 6 bits
DivfracBits(fbrd) == (fbrd % 256) % 64

(***************************************************************************)
(* The register block.                                                     *)
(***************************************************************************)
ResetCR == [uarten |-> FALSE, txe |-> TRUE, rxe |-> TRUE]
ResetLCR_H == [pen |-> FALSE, eps |-> FALSE, wlen |-> 0, stp2 |-> FALSE, fen |-> FALSE]
ResetDMACR == [txdmae |-> FALSE, rxdmae |-> FALSE]

ResetRegs ==
    [uartcr |-> ResetCR, uartlcr_h |-> ResetLCR_H, uartdmacr |-> ResetDMACR,
     uartibrd |-> 0, uartfbrd |-> 0]

\* the word-length codes with those of 6 and 7 data bits exchanged
WlenBitsSwapped(data_bits) ==
    CASE data_bits = "Five" -> 0
      [] data_bits = "Six" -> 2
      [] data_bits = "Seven" -> 1
      [] data_bits = "Eight" -> 3

\* set_format: the fields it sets on the writer w
WlenBits(data_bits) ==
    CASE data_bits = "Five" -> 0
      [] data_bits = "Six" -> 1
      [] data_bits = "Seven" -> 2
      [] data_bits = "Eight" -> 3

set_format(w, data_bits, stop_bits, parity) ==
    [w EXCEPT !.pen = (parity # "None"),
              !.eps = IF parity = "None" THEN w.eps ELSE (parity = "Even"),
              !.wlen = WlenBits(data_bits),
              !.stp2 = (stop_bits = "Two")]

\* configure_baudrate: the locals it computes
BaudLocals(wanted, frequency) ==
    LET div == BaudrateDiv(wanted, frequency)
    IN [wanted |-> wanted, frequency |-> frequency, baudrate_div |-> div,
        baud_ibrd |-> BaudIbrd(div), baud_fbrd |-> BaudFbrd(div),
        effective |-> EffectiveBaud(frequency, BaudIbrd(div), BaudFbrd(div))]

\* the register writes of configure_baudrate and enable, each on the register
\* block r; a write(|w| ...) starts from the register's reset value
\* device.uartibrd.write(|w| w.baud_divint().bits(baud_ibrd as u16))
WriteIbrd(r, l) == [r EXCEPT !.uartibrd = DivintBits(l.baud_ibrd)]

\* the fractional divisor written only when it is not zero
WriteFbrdIfNonZero(r, l) ==
    IF l.baud_fbrd = 0 THEN r ELSE [r EXCEPT !.uartfbrd = DivfracBits(l.baud_fbrd)]

\* device.uartfbrd.write(|w| w.baud_divfrac().bits(baud_fbrd as u8))
WriteFbrd(r, l) == [r EXCEPT !.uartfbrd = DivfracBits(l.baud_fbrd)]

\* device.uartlcr_h.write(|w| { w }): the write that latches the divisors
WriteLatch(r) == [r EXCEPT !.uartlcr_h = ResetLCR_H]

\* device.uartcr.write(|w| { uarten, txe, rxe set })
WriteCr(r) ==
    [r EXCEPT !.uartcr = [ResetCR EXCEPT !.uarten = TRUE, !.txe = TRUE, !.rxe = TRUE]]

\* device.uartlcr_h.write(|w| { w.fen().set_bit(); set_format(w, ...) })
WriteLcrFormat(r, config) ==
    [r EXCEPT !.uartlcr_h =
        set_format([ResetLCR_H EXCEPT !.fen = TRUE],
                   config.data_bits, config.stop_bits, config.parity)]

\* device.uartdmacr.write(|w| { txdmae, rxdmae set })
WriteDmacr(r) ==
    [r EXCEPT !.uartdmacr = [ResetDMACR EXCEPT !.txdmae = TRUE, !.rxdmae = TRUE]]

\* configure_baudrate: its three register writes, in order
configure_baudrate(r, wanted, frequency) ==
    LET l == BaudLocals(wanted, frequency)
        r1 == WriteIbrd(r, l)
        r2 == WriteFbrd(r1, l)
        r3 == WriteLatch(r2)
    IN r3

\* enable with the line format written first, before configure_baudrate
EnableRegsFormatFirst(r, config, frequency) ==
    LET r1 == WriteLcrFormat(r, config)
        r4 == WriteCr(configure_baudrate(r1, config.baudrate, frequency))
        r6 == WriteDmacr(r4)
    IN r6

\* enable: the register writes after configure_baudrate, in order
EnableRegs(r, config, frequency) ==
    LET r3 == configure_baudrate(r, config.baudrate, frequency)
        r4 == WriteCr(r3)
        r5 == WriteLcrFormat(r4, config)
        r6 == WriteDmacr(r5)
    IN r6

\* the register writes of enable in the order of the code, configure_baudrate's
\* three first; "latch" is its write of uartlcr_h
EnableOrder == <<"uartibrd", "uartfbrd", "latch", "uartcr", "uartlcr_h", "uartdmacr">>

\* one register write of enable
EnableWrite(r, which, config, frequency) ==
    CASE which = "uartibrd" -> WriteIbrd(r, BaudLocals(config.baudrate, frequency))
      [] which = "uartfbrd" -> WriteFbrd(r, BaudLocals(config.baudrate, frequency))
      [] which = "latch" -> WriteLatch(r)
      [] which = "uartcr" -> WriteCr(r)
      [] which = "uartlcr_h" -> WriteLcrFormat(r, config)
      [] which = "uartdmacr" -> WriteDmacr(r)

(***************************************************************************)
(* UARTPeripheral<S, D>.                                                   *)
(***************************************************************************)
UARTPeripheral(device, state, config, effective_baudrate) ==
    [device |-> device, state |-> state, config |-> config,
     effective_baudrate |-> effective_baudrate]

\* a transition that builds the new value from defaults instead of moving the fields
transitionReset(self, to) ==
    UARTPeripheral(self.device, to, self.config, 0)

\* transition: every field but the state marker is moved over
transition(self, to) ==
    UARTPeripheral(self.device, to, self.config, self.effective_baudrate)

(***************************************************************************)
(* Activations of the transfer operations.                                 *)
(***************************************************************************)
Pending == [kind |-> "pending", n |-> 0]
Ok(n) == [kind |-> "Ok", n |-> n]
WouldBlock == [kind |-> "WouldBlock", n |-> 0]

\* write / read: data or buffer is the slice passed, orig the buffer as passed,
\* idx the position of the iterator, count bytes_written / bytes_read;
\* checks counts the reads of the flag register and blocked is what the last
\* of them found (TRUE: transmit FIFO full / receive FIFO empty)
NoFrame ==
    [fn |-> "none", dev |-> "none", data |-> <<>>, buffer |-> <<>>, orig |-> <<>>,
     idx |-> 0, count |-> 0, pc |-> "none", ret |-> Pending,
     checks |-> 0, blocked |-> FALSE]
\* write_full_blocking / read_full_blocking: retried records that a WouldBlock was
\* absorbed, partial that a round moved fewer bytes than were left, first the
\* oldest byte the receiver had or was about to get when the call began
NoWrap ==
    [fn |-> "none", dev |-> "none", data |-> <<>>, buffer |-> <<>>,
     offset |-> 0, pc |-> "none", retried |-> FALSE, partial |-> FALSE, first |-> 0]

\* enable followed write by write: n register writes are done, entry is the
\* register block as the call found it
NoEnable ==
    [pc |-> "none", dev |-> "none", config |-> UARTConfig(0, "Five", "One", "None"),
     frequency |-> 0, n |-> 0, entry |-> ResetRegs]

\* the caller is between calls
Idle == frame.fn = "none" /\ wrap.fn = "none" /\ en.pc # "writing"

\* an enable that takes the device by reference: the caller keeps the handle
HandlesCopied(d) == handles

\* what enable leaves in the caller's set of device handles: the handle is moved
HandlesAfterEnable(d) == handles \ {d}

\* enable(device, config, frequency) -> UARTPeripheral<Enabled, D>
Enable(d, config, frequency) ==
    /\ Idle
    /\ d \in handles
    /\ handles' = HandlesAfterEnable(d)
    /\ regs' = [regs EXCEPT ![d] = EnableRegs(regs[d], config, frequency)]
    /\ baudcfg' = [baudcfg EXCEPT ![d] = BaudLocals(config.baudrate, frequency)]
    /\ insts' = insts \cup
         {UARTPeripheral(d, "Enabled", config,
                         BaudLocals(config.baudrate, frequency).effective)}
    /\ UNCHANGED <<en, hw, xfer>>

\* 8 * frequency, the first multiplication of configure_baudrate, leaves u32
MulOverflows(k, x) == x >= ((2^30) \div k) * 4

\* what an overflowing multiplication does: it wraps (overflow checks off) or
\* panics (overflow checks on) before any register is written
EnableOutcomes(frequency) ==
    IF MulOverflows(8, frequency) THEN {"writing", "panicked"} ELSE {"writing"}

\* enable is called: the handle is moved in, configure_baudrate computes its locals
EnableCall(d, config, frequency) ==
    /\ Idle
    /\ d \in handles
    /\ handles' = HandlesAfterEnable(d)
    /\ baudcfg' = [baudcfg EXCEPT ![d] = BaudLocals(config.baudrate, frequency)]
    /\ \E pc \in EnableOutcomes(frequency) :
           en' = [pc |-> pc, dev |-> d, config |-> config, frequency |-> frequency,
                  n |-> 0, entry |-> regs[d]]
    /\ UNCHANGED <<insts, regs, hw, xfer>>

\* the next register write of enable; after the last one enable returns the
\* Enabled peripheral
EnableStep ==
    /\ en.pc = "writing"
    /\ regs' = [regs EXCEPT ![en.dev] =
                   EnableWrite(@, EnableOrder[en.n + 1], en.config, en.frequency)]
    /\ IF en.n + 1 = Len(EnableOrder)
       THEN /\ en' = [en EXCEPT !.n = en.n + 1, !.pc = "returned"]
            /\ insts' = insts \cup
                 {UARTPeripheral(en.dev, "Enabled", en.config, baudcfg[en.dev].effective)}
       ELSE /\ en' = [en EXCEPT !.n = en.n + 1]
            /\ UNCHANGED insts
    /\ UNCHANGED <<handles, baudcfg, hw, xfer>>

\* disable(self) -> UARTPeripheral<Disabled, D>
Disable(self) ==
    /\ Idle
    /\ self \in insts
    /\ self.state = "Enabled"
    /\ insts' = (insts \ {self}) \cup {transition(self, "Disabled")}
    /\ UNCHANGED <<handles, regs, baudcfg, en, hw, xfer>>

\* free(self) -> D, in impl<S: State, D> : either state
Free(self) ==
    /\ Idle
    /\ self \in insts
    /\ insts' = insts \ {self}
    /\ handles' = handles \cup {self.device}
    /\ UNCHANGED <<regs, baudcfg, en, hw, xfer>>

(***************************************************************************)
(* The hardware: flag register, data register, the two FIFOs.              *)
(***************************************************************************)
\* uartfr.txff is set while the transmit FIFO is full
uart_is_writable(d) == Len(txfifo[d]) < FifoDepth
\* uartfr.rxfe is set while the receive FIFO is empty
uart_is_readable(d) == Len(rxfifo[d]) > 0

\* a write of the data register: the byte enters the transmit FIFO
\* (a byte written to a full FIFO is lost)
DataWrite(q, c) == IF Len(q) < FifoDepth THEN Append(q, c) ELSE q

\* a read of the data register: the oldest received byte leaves the FIFO
\* (an empty FIFO reads as 0 and stays empty)
DataReadByte(q) == IF q = <<>> THEN 0 ELSE Head(q)
DataReadRest(q) == IF q = <<>> THEN q ELSE Tail(q)

\* the peer sends the bytes 1, 2, 1, 2, ...
NextByte(b) == 3 - b

\* the transmitter shifts the oldest byte out (uarten and txe set by enable)
Drain(d) ==
    /\ regs[d].uartcr.uarten /\ regs[d].uartcr.txe
    /\ txfifo[d] # <<>>
    /\ txfifo' = [txfifo EXCEPT ![d] = Tail(@)]
    /\ UNCHANGED <<handles, insts, regs, baudcfg, en, rxfifo, rxnext, xfer>>

\* the receiver puts a received byte into the FIFO (uarten and rxe set by enable)
Fill(d) ==
    /\ regs[d].uartcr.uarten /\ regs[d].uartcr.rxe
    /\ Len(rxfifo[d]) < FifoDepth
    /\ rxfifo' = [rxfifo EXCEPT ![d] = Append(@, rxnext[d])]
    /\ rxnext' = [rxnext EXCEPT ![d] = NextByte(@)]
    /\ UNCHANGED <<handles, insts, regs, baudcfg, en, txfifo, xfer>>

(***************************************************************************)
(* impl UARTPeripheral<Enabled, D>: write and read.                        *)
(***************************************************************************)
\* transfer methods placed in impl<S: State, D>, next to free
HasTransferOpsInAnyState(self) == self.state \in {"Enabled", "Disabled"}

\* the transfer methods exist on UARTPeripheral<Enabled, D> only
HasTransferOps(self) == self.state = "Enabled"

\* the slices the caller passes
Pattern(n) == [i \in 1..n |-> IF i % 2 = 1 THEN 1 ELSE 2]
Datas == { Pattern(n) : n \in 0..MaxLen }
Buffers == { [i \in 1..n |-> 0] : n \in 0..MaxLen }

\* a write that reports every full FIFO as WouldBlock
WriteBlockedAlways(bytes_written) == WouldBlock

\* write: the return taken when uart_is_writable() is false
WriteBlocked(bytes_written) ==
    IF bytes_written = 0 THEN WouldBlock ELSE Ok(bytes_written)

\* a read that reports every empty FIFO as WouldBlock
ReadBlockedAlways(bytes_read) == WouldBlock

\* read: the return taken when uart_is_readable() is false
ReadBlocked(bytes_read) ==
    IF bytes_read = 0 THEN WouldBlock ELSE Ok(bytes_read)

\* write: bytes_written = 0 and the first step of `for c in data`
WriteEntry(d, data) ==
    [NoFrame EXCEPT !.fn = "write", !.dev = d, !.data = data,
                    !.pc = IF Len(data) = 0 THEN "done" ELSE "check",
                    !.ret = IF Len(data) = 0 THEN Ok(0) ELSE Pending]

\* read: bytes_read = 0 and entry of the loop
ReadEntry(d, buffer) ==
    [NoFrame EXCEPT !.fn = "read", !.dev = d, !.buffer = buffer, !.orig = buffer,
                    !.pc = "check"]

\* a write that goes on to the data register whatever the flag says
WriteCheckFrameNoCheck(f, writable) ==
    [f EXCEPT !.pc = "push", !.checks = f.checks + 1, !.blocked = FALSE]

\* write: if !self.uart_is_writable() { ... }
WriteCheckFrame(f, writable) ==
    IF ~writable
    THEN [f EXCEPT !.pc = "done", !.ret = WriteBlocked(f.count),
                   !.checks = f.checks + 1, !.blocked = TRUE]
    ELSE [f EXCEPT !.pc = "push", !.checks = f.checks + 1, !.blocked = FALSE]

WriteCheck ==
    /\ frame.fn = "write" /\ frame.pc = "check"
    /\ frame' = WriteCheckFrame(frame, uart_is_writable(frame.dev))
    /\ UNCHANGED <<handles, insts, regs, baudcfg, en, hw, wrap, txlog, rxlog>>

\* write: bytes_written += 1; the data register write; the next step of the for loop
WritePushFrame(f) ==
    [f EXCEPT !.count = f.count + 1,
              !.idx = f.idx + 1,
              !.pc = IF f.idx + 1 = Len(f.data) THEN "done" ELSE "check",
              !.ret = IF f.idx + 1 = Len(f.data) THEN Ok(f.count + 1) ELSE Pending]

WritePush ==
    /\ frame.fn = "write" /\ frame.pc = "push"
    /\ txfifo' = [txfifo EXCEPT ![frame.dev] = DataWrite(@, frame.data[frame.idx + 1])]
    /\ txlog' = Append(txlog, frame.data[frame.idx + 1])
    /\ frame' = WritePushFrame(frame)
    /\ UNCHANGED <<handles, insts, regs, baudcfg, en, rxfifo, rxnext, wrap, rxlog>>

\* a read that goes on to the data register whatever the flag says
ReadCheckFrameNoCheck(f, readable) ==
    [f EXCEPT !.pc = "store", !.checks = f.checks + 1, !.blocked = FALSE]

\* read: if !self.uart_is_readable() { ... }
ReadCheckFrame(f, readable) ==
    IF ~readable
    THEN [f EXCEPT !.pc = "done", !.ret = ReadBlocked(f.count),
                   !.checks = f.checks + 1, !.blocked = TRUE]
    ELSE [f EXCEPT !.pc = "store", !.checks = f.checks + 1, !.blocked = FALSE]

ReadCheck ==
    /\ frame.fn = "read" /\ frame.pc = "check"
    /\ frame' = ReadCheckFrame(frame, uart_is_readable(frame.dev))
    /\ UNCHANGED <<handles, insts, regs, baudcfg, en, hw, wrap, txlog, rxlog>>

\* read: if bytes_read < buffer.len() { buffer[bytes_read] = data register }
ReadHasRoom(f) == f.count < Len(f.buffer)

ReadStore ==
    /\ frame.fn = "read" /\ frame.pc = "store"
    /\ ReadHasRoom(frame)
    /\ frame' = [frame EXCEPT !.buffer[frame.count + 1] = DataReadByte(rxfifo[frame.dev]),
                              !.count = frame.count + 1,
                              !.pc = "check"]
    /\ rxlog' = Append(rxlog, DataReadByte(rxfifo[frame.dev]))
    /\ rxfifo' = [rxfifo EXCEPT ![frame.dev] = DataReadRest(@)]
    /\ UNCHANGED <<handles, insts, regs, baudcfg, en, txfifo, rxnext, wrap, txlog>>

\* read: else { break bytes_read }
ReadBreak ==
    /\ frame.fn = "read" /\ frame.pc = "store"
    /\ ~ReadHasRoom(frame)
    /\ frame' = [frame EXCEPT !.pc = "done", !.ret = Ok(frame.count)]
    /\ UNCHANGED <<handles, insts, regs, baudcfg, en, hw, wrap, txlog, rxlog>>

\* the caller calls write(data) on a peripheral it holds
CallWrite(self, data) ==
    /\ Idle
    /\ self \in insts /\ HasTransferOps(self)
    /\ frame' = WriteEntry(self.device, data)
    /\ UNCHANGED <<handles, insts, regs, baudcfg, en, hw, wrap, txlog, rxlog>>

\* the caller calls read(buffer) on a peripheral it holds
CallRead(self, buffer) ==
    /\ Idle
    /\ self \in insts /\ HasTransferOps(self)
    /\ frame' = ReadEntry(self.device, buffer)
    /\ UNCHANGED <<handles, insts, regs, baudcfg, en, hw, wrap, txlog, rxlog>>

(***************************************************************************)
(* write_full_blocking and read_full_blocking.                             *)
(***************************************************************************)
\* a wrapper that passes the whole slice again on every round
SliceWhole(s, offset) == s

\* &data[offset..]
SliceFrom(s, offset) == SubSeq(s, offset + 1, Len(s))

\* a wrapper that assigns the count of the round instead of adding it
OffsetAssigned(offset, ret) == IF ret.kind = "Ok" THEN ret.n ELSE offset

\* offset += match ... { Ok(n) => n, Err(WouldBlock) => continue }
OffsetAfter(offset, ret) == IF ret.kind = "Ok" THEN offset + ret.n ELSE offset

\* the oldest byte the receiver holds, or the one it gets next
OldestByte(d) == IF rxfifo[d] = <<>> THEN rxnext[d] ELSE Head(rxfifo[d])

\* the observations kept of the rounds of a blocking call
Observed(w, f) ==
    [w EXCEPT !.retried = w.retried \/ f.ret.kind = "WouldBlock",
              !.partial = w.partial \/
                  (f.ret.kind = "Ok" /\ f.ret.n < Len(f.data) + Len(f.buffer))]

CallWriteFull(self, data) ==
    /\ Idle
    /\ self \in insts /\ HasTransferOps(self)
    /\ wrap' = [NoWrap EXCEPT !.fn = "write_full_blocking", !.dev = self.device,
                              !.data = data, !.pc = "while"]
    /\ UNCHANGED <<handles, insts, regs, baudcfg, en, hw, frame, txlog, rxlog>>

CallReadFull(self, buffer) ==
    /\ Idle
    /\ self \in insts /\ HasTransferOps(self)
    /\ wrap' = [NoWrap EXCEPT !.fn = "read_full_blocking", !.dev = self.device,
                              !.buffer = buffer, !.pc = "while",
                              !.first = OldestByte(self.device)]
    /\ UNCHANGED <<handles, insts, regs, baudcfg, en, hw, frame, txlog, rxlog>>

\* while offset != data.len() { ... self.write(&data[offset..]) ... }
WriteFullWhile ==
    /\ wrap.fn = "write_full_blocking" /\ wrap.pc = "while"
    /\ IF wrap.offset # Len(wrap.data)
       THEN /\ frame' = WriteEntry(wrap.dev, SliceFrom(wrap.data, wrap.offset))
            /\ wrap' = [wrap EXCEPT !.pc = "call"]
       ELSE /\ wrap' = [wrap EXCEPT !.pc = "done"]
            /\ UNCHANGED frame
    /\ UNCHANGED <<handles, insts, regs, baudcfg, en, hw, txlog, rxlog>>

WriteFullMatch ==
    /\ wrap.fn = "write_full_blocking" /\ wrap.pc = "call"
    /\ frame.pc = "done"
    /\ wrap' = [Observed(wrap, frame) EXCEPT
                    !.offset = OffsetAfter(wrap.offset, frame.ret), !.pc = "while"]
    /\ frame' = NoFrame
    /\ UNCHANGED <<handles, insts, regs, baudcfg, en, hw, txlog, rxlog>>

\* while offset != buffer.len() { ... self.read(&mut buffer[offset..]) ... }
ReadFullWhile ==
    /\ wrap.fn = "read_full_blocking" /\ wrap.pc = "while"
    /\ IF wrap.offset # Len(wrap.buffer)
       THEN /\ frame' = ReadEntry(wrap.dev, SliceFrom(wrap.buffer, wrap.offset))
            /\ wrap' = [wrap EXCEPT !.pc = "call"]
       ELSE /\ wrap' = [wrap EXCEPT !.pc = "done"]
            /\ UNCHANGED frame
    /\ UNCHANGED <<handles, insts, regs, baudcfg, en, hw, txlog, rxlog>>

\* the slice is a view of the caller's buffer: what read stored is in the buffer
ReadFullMatch ==
    /\ wrap.fn = "read_full_blocking" /\ wrap.pc = "call"
    /\ frame.pc = "done"
    /\ wrap' = [Observed(wrap, frame) EXCEPT
                    !.offset = OffsetAfter(wrap.offset, frame.ret),
                    !.buffer = SubSeq(wrap.buffer, 1, wrap.offset) \o frame.buffer,
                    !.pc = "while"]
    /\ frame' = NoFrame
    /\ UNCHANGED <<handles, insts, regs, baudcfg, en, hw, txlog, rxlog>>

\* the caller's call has returned
Returned ==
    \/ wrap.fn = "none" /\ frame.fn # "none" /\ frame.pc = "done"
    \/ wrap.fn # "none" /\ wrap.pc = "done"

\* the caller takes the result and is between calls again
Return ==
    /\ Returned
    /\ frame' = NoFrame
    /\ wrap' = NoWrap
    /\ txlog' = <<>>
    /\ rxlog' = <<>>
    /\ UNCHANGED <<handles, insts, regs, baudcfg, en, hw>>

(***************************************************************************)
(* Specifications.                                                         *)
(***************************************************************************)
NoBaud ==
    [wanted |-> 0, frequency |-> 0, baudrate_div |-> 0,
     baud_ibrd |-> 0, baud_fbrd |-> 0, effective |-> 0]

InitCommon ==
    /\ insts = {}
    /\ regs = [d \in Devices |-> ResetRegs]
    /\ baudcfg = [d \in Devices |-> NoBaud]
    /\ en = NoEnable
    /\ txfifo = [d \in Devices |-> <<>>]
    /\ rxfifo = [d \in Devices |-> <<>>]
    /\ rxnext = [d \in Devices |-> 1]
    /\ frame = NoFrame
    /\ wrap = NoWrap
    /\ txlog = <<>>
    /\ rxlog = <<>>

\* the caller holds both device handles
InitBoth == handles = Devices /\ InitCommon

\* the caller was handed the handle of UART0 alone
Init == handles = {"UART0"} /\ InitCommon

LifecycleNext ==
    \/ \E d \in Devices, config \in Configs, frequency \in Frequencies :
           Enable(d, config, frequency)
    \/ \E self \in insts : Disable(self)
    \/ \E self \in insts : Free(self)

\* a step of the call in progress
Step ==
    \/ WriteCheck
    \/ WritePush
    \/ ReadCheck
    \/ ReadStore
    \/ ReadBreak
    \/ WriteFullWhile
    \/ WriteFullMatch
    \/ ReadFullWhile
    \/ ReadFullMatch

CallNext ==
    \/ \E self \in insts, data \in Datas : CallWrite(self, data)
    \/ \E self \in insts, buffer \in Buffers : CallRead(self, buffer)
    \/ \E self \in insts, data \in Datas : CallWriteFull(self, data)
    \/ \E self \in insts, buffer \in Buffers : CallReadFull(self, buffer)
    \/ Return

HardwareNext ==
    \/ \E d \in Devices : Drain(d)
    \/ \E d \in Devices : Fill(d)

Next == LifecycleNext \/ CallNext \/ Step \/ HardwareNext

\* every sequence of enable / disable / free on the two devices
LifecycleSpec == InitBoth /\ [][LifecycleNext]_vars

\* lifecycle, transfers and hardware on the device the caller was handed
Spec == Init /\ [][Next]_vars

EnableNext ==
    \/ \E d \in Devices, config \in Configs, frequency \in Frequencies :
           EnableCall(d, config, frequency)
    \/ EnableStep
    \/ \E self \in insts : Disable(self)
    \/ \E self \in insts : Free(self)

\* enable / disable / free on UART0, enable followed register write by register write
EnableSpec == Init /\ [][EnableNext]_vars

\* the baud rates of the UARTConfig presets, and rates that reach both clamps
\* and both ends of the rounding of the fractional part
Bauds == {9600, 19200, 38400, 57600, 115200, 114900, 1000000, 100, 8000000}

\* every UARTConfig over the three format enums
AllConfigs ==
    {UARTConfig(b, db, sb, p) : b \in Bauds, db \in DataBitsT, sb \in StopBitsT, p \in ParityT}

\* the state enable("UART0", config, frequency) is in when it is called on the
\* device in its reset state
FirstEnable(config, frequency) ==
    /\ handles = {}
    /\ insts = {}
    /\ regs = [d \in Devices |-> ResetRegs]
    /\ baudcfg = [d \in Devices |->
                    IF d = "UART0" THEN BaudLocals(config.baudrate, frequency) ELSE NoBaud]
    /\ \E pc \in EnableOutcomes(frequency) :
           en = [pc |-> pc, dev |-> "UART0", config |-> config, frequency |-> frequency,
                 n |-> 0, entry |-> ResetRegs]
    /\ txfifo = [d \in Devices |-> <<>>]
    /\ rxfifo = [d \in Devices |-> <<>>]
    /\ rxnext = [d \in Devices |-> 1]
    /\ frame = NoFrame
    /\ wrap = NoWrap
    /\ txlog = <<>>
    /\ rxlog = <<>>

InitFirstEnable ==
    \E config \in AllConfigs, frequency \in Frequencies : FirstEnable(config, frequency)

\* one enable call on a reset device, over every format and baud rate
FirstEnableSpec == InitFirstEnable /\ [][EnableStep]_vars

\* clock frequencies up to the top of what Hertz(u32) holds and TLC can write
WideFrequencies == Frequencies \cup {536870911, 536870912, 1073741823, 1073741824, 1200000000}

InitWideEnable ==
    \E config \in {c \in AllConfigs : c.data_bits = "Eight" /\ c.stop_bits = "One"
                                         /\ c.parity = "None"},
       frequency \in WideFrequencies : FirstEnable(config, frequency)

\* one enable call on a reset device, over the wide range of clock frequencies
WideEnableSpec == InitWideEnable /\ [][EnableStep]_vars

\* the calling thread keeps running; the transmitter keeps shifting bytes out of
\* a non-empty FIFO and the peer keeps sending
FairSpec ==
    /\ Spec
    /\ WF_vars(Step)
    /\ \A d \in Devices : WF_vars(Drain(d)) /\ WF_vars(Fill(d))

(***************************************************************************)
(* Properties.                                                             *)
(***************************************************************************)
\* data register writes / reads made by the activation of write / read in progress
FramePushed == Len(txlog) - (IF wrap.fn = "write_full_blocking" THEN wrap.offset ELSE 0)
FramePopped == Len(rxlog) - (IF wrap.fn = "read_full_blocking" THEN wrap.offset ELSE 0)

IsPrefix(s, t) == Len(s) <= Len(t) /\ s = SubSeq(t, 1, Len(s))

\* n bytes of the peer's stream, beginning with b
Stream(b, n) == [i \in 1..n |-> IF i % 2 = 1 THEN b ELSE NextByte(b)]

WriteReturned == frame.fn = "write" /\ frame.pc = "done"
ReadReturned == frame.fn = "read" /\ frame.pc = "done"
WriteFullDone == wrap.fn = "write_full_blocking" /\ wrap.pc = "done"
ReadFullDone == wrap.fn = "read_full_blocking" /\ wrap.pc = "done"

\* C1: write returns WouldBlock exactly when data is non-empty and the first read
\* of the flag register found the transmit FIFO full (nothing was written then);
\* otherwise it returns Ok(n), n being the number of bytes written to the data
\* register: the number of checks before the one that found the FIFO full, or
\* len(data) when no check found it full.
C1_WriteResult ==
    WriteReturned =>
        /\ frame.ret.kind \in {"Ok", "WouldBlock"}
        /\ (frame.ret = WouldBlock) <=>
               (Len(frame.data) > 0 /\ frame.checks = 1 /\ frame.blocked)
        /\ (frame.ret = WouldBlock) => FramePushed = 0
        /\ (frame.ret.kind = "Ok") =>
               /\ frame.ret.n = FramePushed
               /\ frame.blocked => (frame.ret.n = frame.checks - 1 /\ frame.ret.n >= 1)
               /\ ~frame.blocked => frame.ret.n = Len(frame.data)

\* a write of 3 bytes that returned Ok(2) because the third check found the FIFO full
C1_Witness ==
    /\ WriteReturned /\ wrap.fn = "none"
    /\ Len(frame.data) = 3 /\ frame.ret = Ok(2) /\ frame.blocked

\* C2: read gives, for every buffer length, the result write gives for data of
\* that length, with receive-FIFO-empty in the place of transmit-FIFO-full:
\* WouldBlock exactly for a non-empty buffer whose first check found the FIFO
\* empty, Ok(n) with n >= 1 after progress, the buffer length when no check found
\* the FIFO empty, and Ok(0) for a zero-length buffer whatever the flag is.
C2_ReadSymmetric ==
    ReadReturned =>
        /\ frame.ret.kind \in {"Ok", "WouldBlock"}
        /\ (frame.ret = WouldBlock) <=>
               (Len(frame.orig) > 0 /\ frame.checks = 1 /\ frame.blocked)
        /\ (Len(frame.orig) = 0) => frame.ret = Ok(0)
        /\ (frame.ret.kind = "Ok" /\ Len(frame.orig) > 0) =>
               (frame.ret.n >= 1 /\ frame.ret.n = FramePopped)
        /\ ~frame.blocked => frame.ret = Ok(Len(frame.orig))

\* C3: under the fairness of the calling thread and of the transmitter,
\* write_full_blocking returns; what it wrote to the data register is at every
\* moment a prefix of data and, when it returns, data itself.
C3_WriteFullBlocking ==
    /\ (wrap.fn = "write_full_blocking") ~> WriteFullDone
    /\ [](wrap.fn = "write_full_blocking" => IsPrefix(txlog, wrap.data))
    /\ [](WriteFullDone => (txlog = wrap.data /\ wrap.offset = Len(wrap.data)))

\* a write_full_blocking of MaxLen bytes that returned after a partial round and
\* an absorbed WouldBlock
C3_Witness ==
    /\ WriteFullDone /\ Len(wrap.data) = MaxLen
    /\ wrap.retried /\ wrap.partial /\ txlog = wrap.data

\* C4: under the fairness of the calling thread and of the receiver,
\* read_full_blocking returns; it never takes more than len(buffer) bytes from
\* the receive FIFO, and when it returns the buffer holds, position by position,
\* the bytes it took, which are the first len(buffer) bytes of the peer's stream
\* from the oldest byte on.
C4_ReadFullBlocking ==
    /\ (wrap.fn = "read_full_blocking") ~> ReadFullDone
    /\ [](wrap.fn = "read_full_blocking" => Len(rxlog) <= Len(wrap.buffer))
    /\ [](ReadFullDone =>
            /\ wrap.offset = Len(wrap.buffer)
            /\ wrap.buffer = rxlog
            /\ wrap.buffer = Stream(wrap.first, Len(wrap.buffer)))

\* a read_full_blocking of MaxLen bytes that returned after a partial round and
\* an absorbed WouldBlock
C4_Witness ==
    /\ ReadFullDone /\ Len(wrap.buffer) = MaxLen
    /\ wrap.retried /\ wrap.partial /\ wrap.buffer = rxlog

\* C5: a write or read that returns WouldBlock wrote nothing to and read nothing
\* from the data register and left the buffer as passed; and no step taken while
\* write or read runs changes a device register, a peripheral value or the
\* ownership of a handle.
C5_WouldBlockNoEffect ==
    /\ []((frame.pc = "done" /\ frame.ret = WouldBlock) =>
            (FramePushed = 0 /\ FramePopped = 0 /\ frame.buffer = frame.orig))
    /\ [][(frame.fn \in {"write", "read"} /\ frame.pc # "done") =>
            UNCHANGED <<regs, insts, handles, baudcfg, en>>]_vars

\* a read into a non-empty buffer that returned WouldBlock
C5_Witness ==
    /\ ReadReturned /\ frame.ret = WouldBlock /\ Len(frame.orig) = MaxLen
    /\ txfifo[frame.dev] # <<>>

\* where the handle of device d is
LifecycleOf(d) ==
    IF d \in handles THEN "handle"
    ELSE IF \E i \in insts : i.device = d
         THEN (CHOOSE i \in insts : i.device = d).state
         ELSE "absent"

LifecycleSteps ==
    { <<"handle", "Enabled">>, <<"Enabled", "Disabled">>,
      <<"Enabled", "handle">>, <<"Disabled", "handle">> }

\* the device the call in progress works on
CallDevice == IF wrap.fn # "none" THEN wrap.dev ELSE frame.dev

\* some transfer operation can be called on peripheral i
OffersTransfer(i) ==
    \/ \E data \in Datas : ENABLED CallWrite(i, data) \/ ENABLED CallWriteFull(i, data)
    \/ \E buffer \in Buffers : ENABLED CallRead(i, buffer) \/ ENABLED CallReadFull(i, buffer)

\* C6: while a transfer operation is in progress the peripheral of its device is
\* Enabled, a Disabled peripheral offers no transfer operation, and the lifecycle
\* of a device changes only by enable (handle to Enabled), disable (Enabled to
\* Disabled) and free (either state to handle).
C6_TransfersOnlyEnabled ==
    /\ [](~Idle => \E i \in insts : i.device = CallDevice /\ i.state = "Enabled")
    /\ [](\A i \in insts : i.state = "Disabled" => ~OffersTransfer(i))
    /\ [][\A d \in Devices :
            LifecycleOf(d)' # LifecycleOf(d) =>
                <<LifecycleOf(d), LifecycleOf(d)'>> \in LifecycleSteps]_vars

\* a read_full_blocking in its second round, on an Enabled peripheral
C6_Witness ==
    /\ wrap.fn = "read_full_blocking" /\ frame.fn = "read" /\ wrap.offset > 0
    /\ LifecycleOf(wrap.dev) = "Enabled"

\* the holders of the handle of device d: the caller, and the peripherals wrapping d
Holders(d) ==
    (IF d \in handles THEN 1 ELSE 0) + Cardinality({i \in insts : i.device = d})

\* C7: over enable / disable / free on UART0 and UART1 every device handle has
\* exactly one holder, the caller or one peripheral; free can be called on every
\* peripheral, Enabled or Disabled, and enable on every handle the caller holds.
C7_ExclusiveOwnership ==
    /\ \A d \in Devices : Holders(d) = 1
    /\ \A i \in insts : i.state \in {"Enabled", "Disabled"} /\ ENABLED Free(i)
    /\ \A d \in handles :
           \A config \in Configs, frequency \in Frequencies :
               ENABLED Enable(d, config, frequency)

\* UART0 was enabled and freed and is with the caller again, while UART1 is held
\* by a Disabled peripheral
C7_Witness ==
    /\ "UART0" \in handles /\ regs["UART0"] # ResetRegs
    /\ \E i \in insts : i.device = "UART1" /\ i.state = "Disabled"

\* C8: a step that turns an Enabled peripheral into a Disabled one changes
\* nothing else: the peripheral keeps device, config and effective baud rate, all
\* registers and both FIFOs are as before, and uarten, txe and rxe are still set.
C8_DisableFrame ==
    [][\A i \in insts :
         (/\ i.state = "Enabled"
          /\ i \notin insts'
          /\ \E j \in insts' : j.device = i.device /\ j.state = "Disabled")
         => /\ insts' = (insts \ {i}) \cup {[i EXCEPT !.state = "Disabled"]}
            /\ UNCHANGED <<regs, txfifo, rxfifo, handles>>
            /\ regs'[i.device].uartcr = [uarten |-> TRUE, txe |-> TRUE, rxe |-> TRUE]]_vars

\* a Disabled peripheral whose device is still enabled in hardware, with bytes in
\* both FIFOs
C8_Witness ==
    \E i \in insts :
        /\ i.state = "Disabled"
        /\ regs[i.device].uartcr.uarten
        /\ txfifo[i.device] # <<>> /\ rxfifo[i.device] # <<>>

\* C9: the effective baud rate of an Enabled peripheral is
\* 4 * frequency / (64 * IBRD + FBRD) for the contents of the two divisor
\* registers of its device.
C9_EffectiveBaudFromRegisters ==
    \A i \in insts :
        i.state = "Enabled" =>
            i.effective_baudrate =
                (4 * baudcfg[i.device].frequency)
                    \div (64 * regs[i.device].uartibrd + regs[i.device].uartfbrd)

\* C10: the divisor pair configure_baudrate computes and programs has its integer
\* part in 1..65535 and its fractional part in 0..63.
C10_DivisorPairInRange ==
    \A d \in Devices :
        baudcfg[d] # NoBaud =>
            /\ baudcfg[d].baud_ibrd \in 1..65535
            /\ baudcfg[d].baud_fbrd \in 0..63
            /\ regs[d].uartibrd = baudcfg[d].baud_ibrd
            /\ regs[d].uartfbrd = baudcfg[d].baud_fbrd

\* an activation of a transfer operation is in progress
InTransfer == frame.fn # "none" \/ wrap.fn # "none"

\* the registers of the device of every Enabled peripheral hold what enable
\* wrote for the config the peripheral holds
EnabledRegisters ==
    /\ \A i \in insts :
           i.state = "Enabled" =>
               LET r == regs[i.device]
               IN /\ r.uartcr.uarten /\ r.uartcr.txe /\ r.uartcr.rxe
                  /\ r.uartlcr_h.fen
                  /\ (i.config.data_bits = "Five" => r.uartlcr_h.wlen = 0)
                  /\ (i.config.data_bits = "Six" => r.uartlcr_h.wlen = 1)
                  /\ (i.config.data_bits = "Seven" => r.uartlcr_h.wlen = 2)
                  /\ (i.config.data_bits = "Eight" => r.uartlcr_h.wlen = 3)
                  /\ r.uartlcr_h.stp2 = (i.config.stop_bits = "Two")
                  /\ r.uartlcr_h.pen = (i.config.parity # "None")
                  /\ (i.config.parity # "None" =>
                          r.uartlcr_h.eps = (i.config.parity = "Even"))
                  /\ r.uartdmacr.txdmae /\ r.uartdmacr.rxdmae
                  /\ i.config.baudrate = baudcfg[i.device].wanted
                  /\ i.effective_baudrate = baudcfg[i.device].effective

\* C11: the device of every Enabled peripheral has uarten, txe and rxe set in
\* uartcr, fen set in uartlcr_h together with the word length, stop bit and parity
\* fields of the config given to enable, and both DMA bits set, and the peripheral
\* holds that config; a step of a transfer operation leaves registers and
\* peripherals as they are.
C11_EnabledRegisters ==
    /\ []EnabledRegisters
    /\ [][(InTransfer \/ InTransfer') => UNCHANGED <<regs, insts, baudcfg>>]_vars

\* an Enabled peripheral with 7 data bits, 2 stop bits and even parity is in the
\* middle of a write, between the flag check and the push
C11_Witness ==
    /\ frame.fn = "write" /\ frame.pc = "push"
    /\ \E i \in insts :
           /\ i.state = "Enabled" /\ i.device = frame.dev
           /\ i.config.data_bits = "Seven" /\ i.config.parity = "Even"

\* enable has returned, on a device that an earlier enable had configured
Reenabled == en.pc = "returned" /\ en.entry # ResetRegs

\* C12: when enable returns, the config and effective baud rate of the peripheral,
\* both divisor registers and the whole of uartlcr_h (pen, eps, wlen, stp2, fen) are
\* those enable gives for the same config and frequency on a device in its reset
\* state, whatever an earlier enable / disable / free left in the registers.
C12_NoConfigPersists ==
    en.pc = "returned" =>
        LET fresh == EnableRegs(ResetRegs, en.config, en.frequency)
            r == regs[en.dev]
        IN /\ r.uartibrd = fresh.uartibrd
           /\ r.uartfbrd = fresh.uartfbrd
           /\ r.uartlcr_h = fresh.uartlcr_h
           /\ \A i \in insts :
                  i.device = en.dev =>
                      /\ i.config = en.config
                      /\ i.effective_baudrate =
                             BaudLocals(en.config.baudrate, en.frequency).effective

\* the device was enabled with even parity and a non-zero fractional divisor,
\* disabled, freed and enabled again without parity and with another baud rate
C12_Witness ==
    /\ Reenabled
    /\ en.entry.uartlcr_h.pen /\ en.entry.uartlcr_h.eps /\ en.entry.uartfbrd # 0
    /\ en.config.parity = "None"
    /\ regs[en.dev].uartibrd # en.entry.uartibrd
    /\ \E i \in insts : i.device = en.dev /\ i.state = "Enabled"

\* the register writes enable has done so far
WritesDone == {EnableOrder[k] : k \in 1..en.n}

\* the (data bits, stop bits, parity) triple read back from a value of uartlcr_h
DecodeFormat(lcr) ==
    <<CASE lcr.wlen = 0 -> "Five" [] lcr.wlen = 1 -> "Six"
        [] lcr.wlen = 2 -> "Seven" [] lcr.wlen = 3 -> "Eight",
      IF lcr.stp2 THEN "Two" ELSE "One",
      IF ~lcr.pen THEN "None" ELSE IF lcr.eps THEN "Even" ELSE "Odd">>

\* C13: enable, called on a device in reset state, sets the format fields in one
\* write of uartlcr_h; from that write on uartlcr_h holds wlen = 0, 1, 2, 3
\* for 5, 6, 7, 8 data bits, stp2 clear for one stop bit and set for two, pen set
\* with eps = (parity is Even) when parity is present and pen clear when it is
\* absent, and fen set; the (data bits, stop bits, parity) triple can be read back
\* from the register, so distinct triples give distinct register values.
C13_FormatEncoding ==
    IF "uartlcr_h" \notin WritesDone
    THEN en.pc = "writing" => regs[en.dev].uartlcr_h = ResetLCR_H
    ELSE
        LET lcr == regs[en.dev].uartlcr_h
            c == en.config
        IN /\ lcr.wlen = (CASE c.data_bits = "Five" -> 0 [] c.data_bits = "Six" -> 1
                            [] c.data_bits = "Seven" -> 2 [] c.data_bits = "Eight" -> 3)
           /\ lcr.stp2 = (c.stop_bits = "Two")
           /\ lcr.pen = (c.parity \in {"Odd", "Even"})
           /\ (lcr.pen => lcr.eps = (c.parity = "Even"))
           /\ lcr.fen
           /\ DecodeFormat(lcr) = <<c.data_bits, c.stop_bits, c.parity>>
           /\ \A c2 \in AllConfigs :
                  <<c2.data_bits, c2.stop_bits, c2.parity>>
                          # <<c.data_bits, c.stop_bits, c.parity>>
                      => WriteLcrFormat(ResetRegs, c2).uartlcr_h # lcr

\* enable has returned after writing the format 7 data bits, 2 stop bits, odd parity
C13_Witness ==
    /\ en.pc = "returned"
    /\ en.config.data_bits = "Seven" /\ en.config.stop_bits = "Two"
    /\ en.config.parity = "Odd"
    /\ regs[en.dev].uartlcr_h =
           [pen |-> TRUE, eps |-> FALSE, wlen |-> 2, stp2 |-> TRUE, fen |-> TRUE]

\* the divisor pair the clamping rule gives for raw = 8 * frequency / baud
ClampedPair(raw) ==
    IF raw \div 128 = 0 THEN <<1, 0>>
    ELSE IF raw \div 128 >= 65535 THEN <<65535, 0>>
    ELSE <<raw \div 128, ((raw % 128) + 1) \div 2>>

\* C14: with raw = 8 * frequency / baud, the pair programmed into uartibrd and
\* uartfbrd is (1, 0) when raw >> 7 is 0, (65535, 0) when raw >> 7 >= 65535, and
\* (raw >> 7, ((raw & 0x7F) + 1) / 2) otherwise; the effective baud rate of the
\* returned peripheral is 4 * frequency / (64 * ibrd + fbrd) for that pair.
C14_DivisorClamping ==
    LET raw == (8 * en.frequency) \div en.config.baudrate
        pair == ClampedPair(raw)
    IN /\ "uartibrd" \in WritesDone => regs[en.dev].uartibrd = pair[1]
       /\ "uartfbrd" \in WritesDone => regs[en.dev].uartfbrd = pair[2]
       /\ \A i \in insts :
              i.device = en.dev =>
                  i.effective_baudrate = (4 * en.frequency) \div (64 * pair[1] + pair[2])

\* enable was called with the preset _115200_8_N_1 and a 125 MHz clock and returned
Preset125MHz ==
    /\ en.pc = "returned"
    /\ en.config = Cfg_115200_8_N_1
    /\ en.frequency = 125000000

\* the statement of C15 as the specification's worked example has it: fractional
\* part 21 and effective baud rate 500_000_000 / 4309 = 116_036
C15_ExampleAsStated ==
    Preset125MHz =>
        /\ baudcfg[en.dev].baudrate_div = 8680
        /\ regs[en.dev].uartibrd = 67
        /\ regs[en.dev].uartfbrd = 21
        /\ \A i \in insts : i.device = en.dev => i.effective_baudrate = 116036

\* C15: for a 125 MHz clock and 115200 baud, raw = 8680, the registers hold integer
\* divisor 67 and fractional divisor 52 (8680 & 0x7F = 104, (104 + 1) / 2 = 52), and
\* the effective baud rate is 500_000_000 / (64 * 67 + 52) = 500_000_000 / 4340 =
\* 115_207.
C15_Example115200 ==
    Preset125MHz =>
        /\ baudcfg[en.dev].baudrate_div = 8680
        /\ regs[en.dev].uartibrd = 67
        /\ regs[en.dev].uartfbrd = 52
        /\ \A i \in insts : i.device = en.dev => i.effective_baudrate = 115207

\* enable with the preset at 125 MHz has returned an Enabled peripheral
C15_Witness ==
    /\ Preset125MHz
    /\ \E i \in insts : i.device = en.dev /\ i.state = "Enabled"
    /\ regs[en.dev].uartibrd = 67

\* the line-control content enable is asked for: fen and the format of the config
RequestedLcr(config) ==
    [pen |-> config.parity # "None", eps |-> config.parity = "Even",
     wlen |-> (CASE config.data_bits = "Five" -> 0 [] config.data_bits = "Six" -> 1
                 [] config.data_bits = "Seven" -> 2 [] config.data_bits = "Eight" -> 3),
     stp2 |-> config.stop_bits = "Two", fen |-> TRUE]

\* C16: enable does its register writes in the order (a) both divisors and the
\* latching write, (b) line format and fen into uartlcr_h, (c) txe, rxe and uarten
\* into uartcr, (d) the DMA bits; while enable runs, uarten is never set with
\* uartlcr_h not yet holding the requested format.
C16_EnableOrder ==
    en.pc \in {"writing", "returned"} =>
        /\ IsPrefix(SubSeq(EnableOrder, 1, en.n),
                    <<"uartibrd", "uartfbrd", "latch", "uartlcr_h", "uartcr", "uartdmacr">>)
        /\ regs[en.dev].uartcr.uarten
               => regs[en.dev].uartlcr_h = RequestedLcr(en.config)

\* C17: the write of uartlcr_h that ends the divisor programming leaves the
\* content of uartlcr_h as it was, whatever the device held when enable was called.
C17_LatchKeepsLcr ==
    [][(en.pc = "writing" /\ EnableOrder[en.n + 1] = "latch")
          => regs'[en.dev].uartlcr_h = regs[en.dev].uartlcr_h]_vars

\* the number of bytes a returned write / read reports
Reported(f) == IF f.ret.kind = "Ok" THEN f.ret.n ELSE 0

\* the last n entries of a log
LastOf(log, n) == SubSeq(log, Len(log) - n + 1, Len(log))

\* C18: a returned write has written to the data register exactly the first n
\* bytes of data, in order, n being the count it returns and 0 on WouldBlock; it
\* is about to write only right after a check that found the transmit FIFO not
\* full, every data register write finds the FIFO below its depth and appends its
\* byte, and the FIFO never holds more than its depth, whatever the transmitter
\* drains in between.
C18_WriteOrderNoOverrun ==
    /\ [](WriteReturned =>
              /\ FramePushed = Reported(frame)
              /\ LastOf(txlog, FramePushed) = SubSeq(frame.data, 1, Reported(frame)))
    /\ []((frame.fn = "write" /\ frame.pc = "push") =>
              /\ ~frame.blocked /\ frame.checks = frame.count + 1
              /\ Len(txfifo[frame.dev]) < FifoDepth)
    /\ [](\A d \in Devices : Len(txfifo[d]) <= FifoDepth)
    /\ [][Len(txlog') = Len(txlog) + 1 =>
              /\ frame.fn = "write" /\ frame.pc = "push"
              /\ Len(txfifo[frame.dev]) < FifoDepth
              /\ txfifo'[frame.dev] = Append(txfifo[frame.dev], frame.data[frame.idx + 1])
              /\ txlog' = Append(txlog, frame.data[frame.idx + 1])]_vars

\* a write of MaxLen bytes returned Ok(MaxLen) although the FIFO is shallower: the
\* transmitter drained between its pushes, and the FIFO is full again
C18_Witness ==
    /\ WriteReturned /\ wrap.fn = "none"
    /\ Len(frame.data) = MaxLen /\ frame.ret = Ok(MaxLen)
    /\ MaxLen > FifoDepth
    /\ Len(txfifo[frame.dev]) = FifoDepth

\* C19: a returned read has taken from the receive FIFO exactly n bytes, n being
\* the count it returns and 0 on WouldBlock; they are in buffer[0..n) in the order
\* taken and buffer[n..) is as the caller passed it; it is about to take a byte
\* only right after a check that found the receive FIFO not empty; every byte that
\* leaves the FIFO is its oldest, leaves in a step of read that found a free
\* buffer position and is stored there.
C19_ReadOrderNoLoss ==
    /\ [](ReadReturned =>
              /\ FramePopped = Reported(frame)
              /\ LastOf(rxlog, FramePopped) = SubSeq(frame.buffer, 1, Reported(frame))
              /\ Len(frame.buffer) = Len(frame.orig)
              /\ \A k \in (Reported(frame) + 1)..Len(frame.buffer) :
                     frame.buffer[k] = frame.orig[k])
    /\ []((frame.fn = "read" /\ frame.pc = "store") =>
              /\ ~frame.blocked /\ frame.checks = frame.count + 1
              /\ rxfifo[frame.dev] # <<>>)
    /\ [][/\ \A d \in Devices :
                (Len(rxfifo'[d]) < Len(rxfifo[d])) =>
                    (Len(rxlog') = Len(rxlog) + 1 /\ frame.dev = d)
          /\ (Len(rxlog') = Len(rxlog) + 1) =>
                /\ frame.fn = "read" /\ frame.pc = "store"
                /\ rxfifo[frame.dev] # <<>>
                /\ frame.count < Len(frame.buffer)
                /\ rxfifo'[frame.dev] = Tail(rxfifo[frame.dev])
                /\ rxlog' = Append(rxlog, Head(rxfifo[frame.dev]))
                /\ frame'.count = frame.count + 1
                /\ frame'.buffer =
                       [frame.buffer EXCEPT ![frame.count + 1] = Head(rxfifo[frame.dev])]]_vars

\* a read returned with its buffer of two or more bytes full while the receive
\* FIFO still holds a byte, which stays there
C19_Witness ==
    /\ ReadReturned /\ wrap.fn = "none"
    /\ Len(frame.buffer) >= 2 /\ frame.ret = Ok(Len(frame.buffer))
    /\ rxfifo[frame.dev] # <<>>

\* floor(k * x / y) over the integers, the product taken apart as k * (q * y + r)
FloorMulDiv(k, x, y) == k * (x \div y) + (k * (x % y)) \div y

\* C20: for every clock frequency and positive baud rate that fit in 32 bits,
\* 8 * frequency, 4 * frequency and 64 * ibrd + fbrd stay below 2^32 (no
\* multiplication overflows, so enable never panics on one), raw is
\* floor(8 * frequency / baud) and the effective baud rate of the returned
\* peripheral is floor(4 * frequency / (64 * ibrd + fbrd)).
C20_NoOverflow ==
    en.pc # "none" =>
        LET l == baudcfg[en.dev]
            divisor == 64 * l.baud_ibrd + l.baud_fbrd
        IN /\ en.pc # "panicked"
           /\ en.frequency < 2^29          \* 8 * frequency < 2^32
           /\ en.frequency < 2^30          \* 4 * frequency < 2^32
           /\ divisor \div 4 < 2^30        \* 64 * ibrd + fbrd < 2^32
           /\ l.baudrate_div = FloorMulDiv(8, en.frequency, en.config.baudrate)
           /\ \A i \in insts :
                  i.device = en.dev =>
                      i.effective_baudrate = FloorMulDiv(4, en.frequency, divisor)

====
